---- MODULE Spec2Model ----
(***************************************************************************)
(* Model of doordash_scraper.py: the menu-item extractor                   *)
(* (extract_menu_items_from_script, extract_item_data_manually) and the    *)
(* orchestration around it (main, retrieve_menu_items, handle_response).   *)
(*                                                                         *)
(* Text is modelled at the level of the tokens the code's patterns see: a  *)
(* matched candidate is the sequence of its "key":value pairs, the quoting *)
(* of its quotes (plain or backslash-escaped) and the outcome its syntax   *)
(* gives json.loads.  Python values are tagged records (str, None, list).  *)
(***************************************************************************)
EXTENDS Integers, Sequences, FiniteSets, TLC

VARIABLES pc, has_marker, n_scripts, n_items, item_json, item_data,
          menu_items, unique_items, seen_ids, idx, log,
          instance_acquired, listening, menu_items_data, n_responses, ui,
          menu_items_from_html, main_menu_items, output_file, stop_calls, failure

vars == <<pc, has_marker, n_scripts, n_items, item_json, item_data,
          menu_items, unique_items, seen_ids, idx, log,
          instance_acquired, listening, menu_items_data, n_responses, ui,
          menu_items_from_html, main_menu_items, output_file, stop_calls, failure>>

extractVars == <<has_marker, n_scripts, n_items, item_json, item_data,
                 menu_items, unique_items, seen_ids, idx>>

mainVars == <<instance_acquired, listening, menu_items_data, n_responses, ui,
              menu_items_from_html, main_menu_items, output_file, stop_calls, failure>>

----------------------------------------------------------------------------
(* Bounds *)

MaxFields == 4        \* key/value pairs in one candidate
MaxScripts == 2       \* script blocks in one document
MaxItems == 3         \* candidates matched in one document
MaxResponses == 2     \* network responses seen by the listener in one run

----------------------------------------------------------------------------
(* Python values *)

Str(s) == [t |-> "str", v |-> s]
None == [t |-> "none", v |-> ""]
ListVal == [t |-> "list", v |-> ""]

\* hash(x) succeeds for str and None and raises TypeError for a list
Hashable(x) == x.t # "list"

EmptyDict == [k \in {} |-> None]

Put(d, k, x) == [j \in (DOMAIN d) \cup {k} |-> IF j = k THEN x ELSE d[j]]

\* dict.get(k): the value, or None when the key is missing
Get(d, k) == IF k \in DOMAIN d THEN d[k] ELSE None

----------------------------------------------------------------------------
(* Candidate text *)

KeyIdx(k) ==
    CASE k = "id" -> 1
      [] k = "name" -> 2
      [] k = "description" -> 3
      [] k = "displayPrice" -> 4
      [] k = "imageUrl" -> 5
      [] k = "ratingDisplayString" -> 6

Field(k, x) == [key |-> k, val |-> x]

\* pairs are listed in key order: neither parser looks at the order of
\* pairs of different keys, only at the order of pairs of the same key
KeySorted(s) == \A i \in 1..(Len(s) - 1) : KeyIdx(s[i].key) <= KeyIdx(s[i + 1].key)

FieldSeqs(F, n) == {s \in UNION {[1..m -> F] : m \in 0..n} : KeySorted(s)}

ItemFields ==
    {Field("id", Str("1")), Field("id", Str("")), Field("id", None), Field("id", ListVal),
     Field("name", Str("A")), Field("name", Str("")),
     Field("description", Str("D")), Field("description", Str("")),
     Field("displayPrice", Str("$2.50")),
     Field("imageUrl", Str("U")), Field("imageUrl", Str("")),
     Field("ratingDisplayString", Str("4.5")), Field("ratingDisplayString", Str("null")),
     Field("ratingDisplayString", None)}

ScanFields ==
    {Field("id", Str("1")), Field("id", Str("2")), Field("id", None), Field("id", ListVal),
     Field("name", Str("A")), Field("name", Str(""))}

\* syntax: what the unescaped text gives json.loads
\*   "valid"     a JSON object
\*   "malformed" json.JSONDecodeError (broken or truncated structure)
\*   "too_deep"  RecursionError (arrays nested beyond the recursion limit)
Syntaxes == {"valid", "malformed", "too_deep"}

Candidate(q, f, s) == [quoting |-> q, fields |-> f, syntax |-> s]

ItemPool ==
    {Candidate(q, f, s) : q \in {"plain", "escaped"}, f \in FieldSeqs(ItemFields, MaxFields),
                          s \in Syntaxes}

\* the field sequences over F in which no key is repeated
OnePerKey(F) ==
    {s \in FieldSeqs(F, Cardinality({fld.key : fld \in F})) :
        \A i, j \in 1..Len(s) : i # j => s[i].key # s[j].key}

\* candidates of the runs with several candidates: at most one id pair and
\* one name pair each (repeated keys are covered by ItemPool)
ScanPool ==
    {Candidate("plain", f, s) : f \in OnePerKey(ScanFields), s \in Syntaxes}

MainPool ==
    {Candidate("escaped", <<Field("id", Str("1")), Field("name", Str("A"))>>, "valid"),
     Candidate("plain", <<Field("id", ListVal), Field("name", Str("A"))>>, "valid"),
     Candidate("plain", <<Field("name", Str("A"))>>, "malformed")}

NoItem == Candidate("none", <<>>, "none")
NoData == [unset |-> None]

----------------------------------------------------------------------------
(* extract_menu_items_from_script, per candidate *)

\* item_json.replace('\\"', '"')
Unescape(c) == [c EXCEPT !.quoting = "plain"]

RECURSIVE LoadFields(_, _)
LoadFields(f, d) ==
    IF f = <<>> THEN d
    ELSE LoadFields(Tail(f), Put(d, Head(f).key, Head(f).val))

\* json.loads: the object's pairs, a repeated key keeping its last value;
\* text whose quotes are still escaped is not JSON
json_loads(c) ==
    IF c.quoting # "plain" \/ c.syntax = "malformed"
    THEN [exc |-> "JSONDecodeError", value |-> EmptyDict]
    ELSE IF c.syntax = "too_deep"
    THEN [exc |-> "RecursionError", value |-> EmptyDict]
    ELSE [exc |-> "none",
          value |-> LoadFields(c.fields, Put(EmptyDict, "__typename", Str("MenuPageItem")))]

\* re.search(r'"key"\s*:\s*"([^"]+)"') (nonEmpty) or "([^"]*)": the first
\* pair of that key whose value is a quoted string the group accepts
Matches(fld, k, nonEmpty) ==
    /\ fld.key = k
    /\ fld.val.t = "str"
    /\ (nonEmpty => fld.val.v # "")

RECURSIVE Search(_, _, _)
Search(f, k, nonEmpty) ==
    IF f = <<>> THEN [found |-> FALSE, group |-> ""]
    ELSE IF Matches(Head(f), k, nonEmpty) THEN [found |-> TRUE, group |-> Head(f).val.v]
    ELSE Search(Tail(f), k, nonEmpty)

re_search(c, k, nonEmpty) ==
    IF c.quoting = "plain" THEN Search(c.fields, k, nonEmpty)
    ELSE [found |-> FALSE, group |-> ""]

PutIf(d, cond, k, s) == IF cond THEN Put(d, k, Str(s)) ELSE d

\* variant: the "null" test of line 138 dropped
RatingStoredAlways(m) == m.found

\* line 138
RatingStored(m) == m.found /\ m.group # "null"

extract_item_data_manually(c) ==
    LET id_match == re_search(c, "id", TRUE)
        name_match == re_search(c, "name", TRUE)
        desc_match == re_search(c, "description", FALSE)
        price_match == re_search(c, "displayPrice", FALSE)
        image_match == re_search(c, "imageUrl", TRUE)
        rating_match == re_search(c, "ratingDisplayString", FALSE)
        d1 == PutIf(EmptyDict, id_match.found, "id", id_match.group)
        d2 == PutIf(d1, name_match.found, "name", name_match.group)
        d3 == PutIf(d2, desc_match.found, "description", desc_match.group)
        d4 == PutIf(d3, price_match.found, "price", price_match.group)
        d5 == PutIf(d4, image_match.found, "image_url", image_match.group)
    IN  PutIf(d5, RatingStored(rating_match), "rating", rating_match.group)

\* variant: a decode error handled like any other exception, no fallback
ParseItemNoFallback(c) == json_loads(Unescape(c))

\* lines 93-97: the value bound to item_data, or the exception that leaves
\* the inner try
ParseItem(c) ==
    LET cleaned_json == Unescape(c)
        strict == json_loads(cleaned_json)
    IN  IF strict.exc = "none" THEN strict
        ELSE IF strict.exc = "JSONDecodeError"
        THEN [exc |-> "none", value |-> extract_item_data_manually(cleaned_json)]
        ELSE strict

\* line 99: if item_data and 'name' in item_data
Accepted(d) == DOMAIN d # {} /\ "name" \in DOMAIN d

----------------------------------------------------------------------------
(* extract_menu_items_from_script as a step machine *)

InitExtractVars ==
    /\ has_marker = FALSE
    /\ n_scripts = 0
    /\ n_items = 0
    /\ item_json = NoItem
    /\ item_data = NoData
    /\ menu_items = <<>>
    /\ unique_items = <<>>
    /\ seen_ids = {}
    /\ idx = 1

InitMainVars ==
    /\ instance_acquired = FALSE
    /\ listening = FALSE
    /\ menu_items_data = <<>>
    /\ n_responses = 0
    /\ ui = {}
    /\ menu_items_from_html = <<>>
    /\ main_menu_items = <<>>
    /\ output_file = [written |-> FALSE, content |-> <<>>]
    /\ stop_calls = 0
    /\ failure = "none"

\* lines 87-88: the next script block; it is scanned only when it contains
\* the marker
NextScript ==
    /\ pc = "x_scan"
    /\ n_scripts < MaxScripts
    /\ n_scripts' = n_scripts + 1
    /\ \E m \in BOOLEAN : has_marker' = m
    /\ UNCHANGED <<pc, n_items, item_json, item_data, menu_items, unique_items,
                   seen_ids, idx, log>>
    /\ UNCHANGED mainVars

\* lines 89-103: the next match of menu_items_pattern in the current block
ProcessItem(pool, max) ==
    /\ pc = "x_scan"
    /\ n_scripts > 0
    /\ has_marker
    /\ n_items < max
    /\ \E c \in pool :
         LET r == ParseItem(c) IN
         /\ item_json' = c
         /\ n_items' = n_items + 1
         /\ IF r.exc = "none"
            THEN /\ item_data' = r.value
                 /\ menu_items' = IF Accepted(r.value) THEN Append(menu_items, r.value)
                                  ELSE menu_items
                 /\ log' = log
            ELSE /\ item_data' = item_data
                 /\ menu_items' = menu_items
                 /\ log' = log \cup {"Error parsing menu item JSON"}
    /\ UNCHANGED <<pc, has_marker, n_scripts, unique_items, seen_ids, idx>>
    /\ UNCHANGED mainVars

\* line 105-106: the scan loops are over
StartDedup ==
    /\ pc = "x_scan"
    /\ pc' = "x_dedup"
    /\ unique_items' = <<>>
    /\ seen_ids' = {}
    /\ idx' = 1
    /\ UNCHANGED <<has_marker, n_scripts, n_items, item_json, item_data, menu_items, log>>
    /\ UNCHANGED mainVars

\* lines 108-111: one iteration; the membership test hashes item.get('id')
DedupStep ==
    /\ pc = "x_dedup"
    /\ idx <= Len(menu_items)
    /\ LET item == menu_items[idx]
           key == Get(item, "id")
       IN  IF ~Hashable(key)
           THEN /\ pc' = "x_raised"
                /\ UNCHANGED <<unique_items, seen_ids, idx>>
           ELSE /\ pc' = pc
                /\ idx' = idx + 1
                /\ IF key \notin seen_ids
                   THEN /\ seen_ids' = seen_ids \cup {key}
                        /\ unique_items' = Append(unique_items, item)
                   ELSE UNCHANGED <<unique_items, seen_ids>>
    /\ UNCHANGED <<has_marker, n_scripts, n_items, item_json, item_data, menu_items, log>>
    /\ UNCHANGED mainVars

\* line 113
ReturnUnique ==
    /\ pc = "x_dedup"
    /\ idx > Len(menu_items)
    /\ pc' = "x_done"
    /\ UNCHANGED extractVars
    /\ UNCHANGED log
    /\ UNCHANGED mainVars

InitExtract ==
    /\ pc = "x_scan"
    /\ log = {}
    /\ InitExtractVars
    /\ InitMainVars

NextItem == NextScript \/ ProcessItem(ItemPool, 1) \/ StartDedup \/ DedupStep \/ ReturnUnique

NextExtract == NextScript \/ ProcessItem(ScanPool, MaxItems) \/ StartDedup \/ DedupStep \/ ReturnUnique

\* one candidate drawn from the full field set
SpecItem == InitExtract /\ [][NextItem]_vars

\* several candidates over id and name
SpecExtract == InitExtract /\ [][NextExtract]_vars

----------------------------------------------------------------------------
(* main, retrieve_menu_items, handle_response *)

\* the awaits of retrieve_menu_items after page.on: the only points where the
\* event loop can run handle_response (lines 49, 51, 58-60, 64-70)
AwaitPoints == {"r_goto", "r_content", "r_query", "r_click"}

\* the body of a response whose json() gives {'data': {'itemPage': ...}}
ItemPagePayload == Put(EmptyDict, "name", Str("P"))

\* variant: cleanup only at the end of the try block, skipped by an exception
AfterTryNoFinally(raised) == IF raised THEN "m_end" ELSE "m_finally"

\* lines 146-156: try/finally, every exit of the try block runs the finally
AfterTry(raised) == "m_finally"

\* variant: the click sequence without its try/except
ClickErrorPropagates == FALSE

\* line 71: except Exception around the click sequence
ClickErrorCaught == TRUE

\* line 44: except Exception around response.json() and the appends
ResponseErrorCaught == TRUE

\* variant: the intercepted payloads merged into the returned list
ReturnValueMerged(from_html, data) == from_html \o data

\* line 74: return menu_items_from_html
ReturnValue(from_html, data) == from_html

\* an exception leaving retrieve_menu_items: the async with block closes the
\* connection and main's try block is left
Raise(cause) ==
    /\ failure' = cause
    /\ listening' = FALSE
    /\ pc' = AfterTry(TRUE)

\* lines 144, 11-15: outside the try block
GetBrowser ==
    /\ pc = "m_start"
    /\ \E ok \in BOOLEAN :
         IF ok THEN /\ instance_acquired' = TRUE
                    /\ pc' = "r_setup"
                    /\ failure' = failure
               ELSE /\ instance_acquired' = FALSE
                    /\ pc' = "m_end"
                    /\ failure' = "start_browser"
    /\ UNCHANGED extractVars
    /\ UNCHANGED <<log, listening, menu_items_data, n_responses, ui, menu_items_from_html,
                   main_menu_items, output_file, stop_calls>>

\* lines 26-47: CDP connection, stealth, listener registration
Setup ==
    /\ pc = "r_setup"
    /\ \E ok \in BOOLEAN :
         IF ok THEN /\ listening' = TRUE
                    /\ pc' = "r_goto"
                    /\ failure' = failure
               ELSE Raise("connect")
    /\ UNCHANGED extractVars
    /\ UNCHANGED <<log, instance_acquired, menu_items_data, n_responses, ui,
                   menu_items_from_html, main_menu_items, output_file, stop_calls>>

\* lines 37-45
HandleResponse ==
    /\ listening
    /\ pc \in AwaitPoints
    /\ n_responses < MaxResponses
    /\ n_responses' = n_responses + 1
    /\ \E url_has_itemPage \in BOOLEAN, body \in {"itemPage", "other", "invalid"} :
         IF ~url_has_itemPage \/ body = "other"
         THEN UNCHANGED <<menu_items_data, log, pc, failure, listening>>
         ELSE IF body = "itemPage"
         THEN /\ menu_items_data' = Append(menu_items_data, ItemPagePayload)
              /\ UNCHANGED <<log, pc, failure, listening>>
         ELSE IF ResponseErrorCaught
         THEN /\ log' = log \cup {"Error parsing GraphQL response"}
              /\ UNCHANGED <<menu_items_data, pc, failure, listening>>
         ELSE /\ Raise("response")
              /\ UNCHANGED <<menu_items_data, log>>
    /\ UNCHANGED extractVars
    /\ UNCHANGED <<instance_acquired, ui, menu_items_from_html, main_menu_items,
                   output_file, stop_calls>>

\* line 49: page.goto, a timeout raises
Goto ==
    /\ pc = "r_goto"
    /\ \E ok \in BOOLEAN :
         IF ok THEN /\ pc' = "r_content"
                    /\ UNCHANGED <<failure, listening>>
               ELSE Raise("goto")
    /\ UNCHANGED extractVars
    /\ UNCHANGED <<log, instance_acquired, menu_items_data, n_responses, ui,
                   menu_items_from_html, main_menu_items, output_file, stop_calls>>

\* line 51: page.content
Content ==
    /\ pc = "r_content"
    /\ \E ok \in BOOLEAN :
         IF ok THEN /\ pc' = "r_dump"
                    /\ UNCHANGED <<failure, listening>>
               ELSE Raise("content")
    /\ UNCHANGED extractVars
    /\ UNCHANGED <<log, instance_acquired, menu_items_data, n_responses, ui,
                   menu_items_from_html, main_menu_items, output_file, stop_calls>>

\* lines 53-56: doordash_page.html is written, then the extractor is called
DumpAndCallExtract ==
    /\ pc = "r_dump"
    /\ \E ok \in BOOLEAN :
         IF ok THEN /\ pc' = "x_scan"
                    /\ UNCHANGED <<failure, listening>>
               ELSE Raise("dump")
    /\ UNCHANGED extractVars
    /\ UNCHANGED <<log, instance_acquired, menu_items_data, n_responses, ui,
                   menu_items_from_html, main_menu_items, output_file, stop_calls>>

\* line 56: the extractor returns, or its exception leaves retrieve_menu_items
ExtractReturns ==
    /\ pc \in {"x_done", "x_raised"}
    /\ IF pc = "x_done"
       THEN /\ menu_items_from_html' = unique_items
            /\ pc' = "r_query"
            /\ UNCHANGED <<failure, listening>>
       ELSE /\ Raise("extract")
            /\ UNCHANGED menu_items_from_html
    /\ UNCHANGED extractVars
    /\ UNCHANGED <<log, instance_acquired, menu_items_data, n_responses, ui,
                   main_menu_items, output_file, stop_calls>>

\* lines 58-62: the two selector queries
Query ==
    /\ pc = "r_query"
    /\ \E r \in {"found", "empty", "error"} :
         CASE r = "found" -> /\ pc' = "r_click"
                             /\ UNCHANGED <<failure, listening>>
           [] r = "empty" -> /\ pc' = "r_return"
                             /\ UNCHANGED <<failure, listening>>
           [] r = "error" -> Raise("query")
    /\ UNCHANGED extractVars
    /\ UNCHANGED <<log, instance_acquired, menu_items_data, n_responses, ui,
                   menu_items_from_html, main_menu_items, output_file, stop_calls>>

\* lines 63-72: click the first item, then close the dialog
Click ==
    /\ pc = "r_click"
    /\ \E err \in BOOLEAN, close_button \in BOOLEAN :
         IF err
         THEN IF ClickErrorCaught
              THEN /\ log' = log \cup {"Error processing menu item"}
                   /\ pc' = "r_return"
                   /\ UNCHANGED <<ui, failure, listening>>
              ELSE /\ Raise("click")
                   /\ UNCHANGED <<ui, log>>
         ELSE /\ ui' = {"click_item", IF close_button THEN "click_close" ELSE "press_escape"}
              /\ pc' = "r_return"
              /\ UNCHANGED <<log, failure, listening>>
    /\ UNCHANGED extractVars
    /\ UNCHANGED <<instance_acquired, menu_items_data, n_responses,
                   menu_items_from_html, main_menu_items, output_file, stop_calls>>

\* line 74 and line 147: the value bound to main's menu_items
Return ==
    /\ pc = "r_return"
    /\ main_menu_items' = ReturnValue(menu_items_from_html, menu_items_data)
    /\ listening' = FALSE
    /\ pc' = "m_write"
    /\ UNCHANGED extractVars
    /\ UNCHANGED <<log, instance_acquired, menu_items_data, n_responses, ui,
                   menu_items_from_html, output_file, stop_calls, failure>>

\* lines 152-153
WriteOutput ==
    /\ pc = "m_write"
    /\ \E ok \in BOOLEAN :
         IF ok THEN /\ output_file' = [written |-> TRUE, content |-> main_menu_items]
                    /\ failure' = failure
                    /\ pc' = AfterTry(FALSE)
               ELSE /\ output_file' = output_file
                    /\ failure' = "write"
                    /\ pc' = AfterTry(TRUE)
    /\ UNCHANGED extractVars
    /\ UNCHANGED <<log, instance_acquired, listening, menu_items_data, n_responses, ui,
                   menu_items_from_html, main_menu_items, stop_calls>>

\* lines 155-156
StopInstance ==
    /\ pc = "m_finally"
    /\ stop_calls' = stop_calls + 1
    /\ pc' = "m_end"
    /\ UNCHANGED extractVars
    /\ UNCHANGED <<log, instance_acquired, listening, menu_items_data, n_responses, ui,
                   menu_items_from_html, main_menu_items, output_file, failure>>

InitMain ==
    /\ pc = "m_start"
    /\ log = {}
    /\ InitExtractVars
    /\ InitMainVars

NextMain ==
    \/ GetBrowser \/ Setup \/ HandleResponse \/ Goto \/ Content \/ DumpAndCallExtract
    \/ NextScript \/ ProcessItem(MainPool, MaxItems) \/ StartDedup \/ DedupStep \/ ReturnUnique
    \/ ExtractReturns \/ Query \/ Click \/ Return \/ WriteOutput \/ StopInstance

\* a whole run of main()
SpecMain == InitMain /\ [][NextMain]_vars

\* the steps of the main coroutine; asyncio.run drives it until it returns or
\* raises, and every await in it completes or times out
ProgramStep ==
    \/ GetBrowser \/ Setup \/ Goto \/ Content \/ DumpAndCallExtract
    \/ NextScript \/ ProcessItem(MainPool, MaxItems) \/ StartDedup \/ DedupStep \/ ReturnUnique
    \/ ExtractReturns \/ Query \/ Click \/ Return \/ WriteOutput \/ StopInstance

SpecMainFair == SpecMain /\ WF_vars(ProgramStep)

----------------------------------------------------------------------------
(* Helpers of the properties *)

HasKey(d, k) == k \in DOMAIN d

Indices(sq) == 1..Len(sq)

\* the elements of sq at the positions in I, in order
Pick(sq, I) ==
    LET F[k \in 0..Len(sq)] ==
          IF k = 0 THEN <<>>
          ELSE IF k \in I THEN Append(F[k - 1], sq[k]) ELSE F[k - 1]
    IN  F[Len(sq)]

\* positions of the quoted-string values of key k in a candidate
StringPairs(c, k) == {i \in Indices(c.fields) : c.fields[i].key = k /\ c.fields[i].val.t = "str"}

NonEmptyPairs(c, k) == {i \in StringPairs(c, k) : c.fields[i].val.v # ""}

Lowest(I) == CHOOSE i \in I : \A j \in I : i <= j

ValueAt(c, i) == c.fields[i].val.v

Returned == pc = "x_done"

----------------------------------------------------------------------------
(* C1 *)

EggRoll ==
    <<Field("id", Str("1")), Field("name", Str("A")), Field("description", Str("D")),
      Field("displayPrice", Str("$2.50"))>>

\* C1: when the only script block embeds exactly one well-formed object with
\* id, name, description and displayPrice, the extractor returns exactly one
\* record, which has the display price under the key price and the embedded
\* id, name and description.
C1_PriceRenamed ==
    (Returned /\ n_scripts = 1 /\ n_items = 1 /\ item_json.fields = EggRoll
        /\ item_json.syntax = "valid")
    => /\ Len(unique_items) = 1
       /\ HasKey(unique_items[1], "price")
       /\ unique_items[1]["price"] = Str("$2.50")
       /\ Get(unique_items[1], "id") = Str("1")
       /\ Get(unique_items[1], "name") = Str("A")
       /\ Get(unique_items[1], "description") = Str("D")

----------------------------------------------------------------------------
(* C2 *)

WithoutId(sq) == {i \in Indices(sq) : ~HasKey(sq[i], "id")}

\* C2: every accumulated record without an id key is in the output: the output
\* has as many records without id as were accumulated.
C2_NoIdAllRetained ==
    Returned => Cardinality(WithoutId(unique_items)) = Cardinality(WithoutId(menu_items))

----------------------------------------------------------------------------
(* C3 *)

\* C3: the extractor never raises: no step of the scan or of the deduplication
\* loop ends with an exception leaving the function.
C3_NeverRaises == pc # "x_raised"

----------------------------------------------------------------------------
(* C4 *)

NonEmptyString(x) == x.t = "str" /\ x.v # ""

\* C4: every returned record has a name key whose value is a non-empty string.
C4_NameNonEmpty ==
    Returned => \A i \in Indices(unique_items) :
                   HasKey(unique_items[i], "name") /\ NonEmptyString(unique_items[i]["name"])

----------------------------------------------------------------------------
(* C5 *)

\* positions of the records with an id key that no earlier record with an id
\* key shares
FirstOfId(sq) ==
    {i \in Indices(sq) :
        /\ HasKey(sq[i], "id")
        /\ \A j \in 1..(i - 1) : HasKey(sq[j], "id") => sq[j]["id"] # sq[i]["id"]}

WithId(sq) == {i \in Indices(sq) : HasKey(sq[i], "id")}

\* C5: among the records with an id, the output has exactly the first
\* accumulated record of each distinct id value, in discovery order.
C5_FirstPerId ==
    Returned => Pick(unique_items, WithId(unique_items)) = Pick(menu_items, FirstOfId(menu_items))

----------------------------------------------------------------------------
(* C6 *)

\* C6 as stated: no failure of the orchestration aborts the run; a run with an
\* acquired instance ends with menu_items.json written unless writing it failed.
C6_OnlyWriteFatal ==
    (pc = "m_end" /\ instance_acquired) => (output_file.written \/ failure = "write")

SwallowedFailures == {"click", "response"}

\* C6 amended: click errors, response-parsing errors and a missing close
\* button never abort the run; a run ends without menu_items.json exactly when
\* one of the uncaught steps raised (browser start, connection, page.goto,
\* page.content, the page dump, the extractor, the selector query, the write).
C6_CaughtFailuresNotFatal ==
    /\ failure \notin SwallowedFailures
    /\ pc = "m_end" => (output_file.written <=> failure = "none")

C6_Witness ==
    /\ pc = "m_end"
    /\ output_file.written
    /\ "Error processing menu item" \in log
    /\ "Error parsing GraphQL response" \in log

----------------------------------------------------------------------------
(* C7 *)

ItemStep == n_items' = n_items + 1

Accumulated(v) ==
    /\ Len(menu_items') = Len(menu_items) + 1
    /\ HasKey(menu_items'[Len(menu_items')], "name")
    /\ menu_items'[Len(menu_items')]["name"] = Str(v)

OthersUntouched ==
    /\ pc' = pc
    /\ Len(menu_items') \in {Len(menu_items), Len(menu_items) + 1}
    /\ SubSeq(menu_items', 1, Len(menu_items)) = menu_items

FallbackStep(failed) ==
    ItemStep =>
      /\ OthersUntouched
      /\ (failed /\ NonEmptyPairs(item_json', "name") # {})
            => Accumulated(ValueAt(item_json', Lowest(NonEmptyPairs(item_json', "name"))))

----------------------------------------------------------------------------
(* C8 *)

\* the candidate has ratingDisplayString pairs and all of them are null, as
\* the string "null" or as the JSON literal
RatingIsNull(c) ==
    /\ \E i \in Indices(c.fields) : c.fields[i].key = "ratingDisplayString"
    /\ \A i \in Indices(c.fields) :
          c.fields[i].key = "ratingDisplayString"
             => c.fields[i].val \in {Str("null"), None}

Present(c, k, nonEmpty) == IF nonEmpty THEN NonEmptyPairs(c, k) # {} ELSE StringPairs(c, k) # {}

RatingPresent(c) ==
    /\ StringPairs(c, "ratingDisplayString") # {}
    /\ ValueAt(c, Lowest(StringPairs(c, "ratingDisplayString"))) # "null"

\* C8: no record for a candidate whose ratingDisplayString is null has a
\* rating key; in the fallback the rating key is present exactly when the
\* first quoted ratingDisplayString value differs from "null", and each other
\* key exactly when its own pattern matches.
C8_NullRatingOmitted ==
    n_items = 1 =>
      /\ RatingIsNull(item_json) =>
            /\ ~HasKey(item_data, "rating")
            /\ \A i \in Indices(menu_items) : ~HasKey(menu_items[i], "rating")
            /\ \A i \in Indices(unique_items) : ~HasKey(unique_items[i], "rating")
      /\ item_json.syntax = "malformed" =>
            /\ HasKey(item_data, "rating") <=> RatingPresent(item_json)
            /\ HasKey(item_data, "id") <=> Present(item_json, "id", TRUE)
            /\ HasKey(item_data, "name") <=> Present(item_json, "name", TRUE)
            /\ HasKey(item_data, "description") <=> Present(item_json, "description", FALSE)
            /\ HasKey(item_data, "price") <=> Present(item_json, "displayPrice", FALSE)
            /\ HasKey(item_data, "image_url") <=> Present(item_json, "imageUrl", TRUE)

C8_Witness ==
    /\ Returned
    /\ item_json.syntax = "malformed"
    /\ item_json.quoting = "escaped"
    /\ RatingIsNull(item_json)
    /\ Len(unique_items) = 1
    /\ DOMAIN unique_items[1] = {"name", "price"}

----------------------------------------------------------------------------
(* C9 *)

TryBlockOver == ~listening /\ (failure # "none" \/ output_file.written)

\* C9: in every run that acquired the instance, instance.stop() is eventually
\* called, exactly once, and only after retrieve_menu_items and the output
\* write have completed or failed; a run that did not acquire it never calls it.
C9_StoppedOnce ==
    /\ [](stop_calls <= 1)
    /\ [](stop_calls = 1 => (instance_acquired /\ pc = "m_end" /\ TryBlockOver))
    /\ []((pc = "m_end" /\ instance_acquired) => stop_calls = 1)
    /\ (instance_acquired ~> stop_calls = 1)

C9_Witness ==
    /\ pc = "m_end"
    /\ failure = "goto"
    /\ stop_calls = 1

----------------------------------------------------------------------------
(* C10 *)

\* C10: whatever responses were intercepted, the list retrieve_menu_items
\* returns, and the content written to menu_items.json, is the extractor's
\* output for the captured page.
C10_ResultFromHtmlOnly ==
    /\ (pc = "m_write" \/ (pc \in {"m_finally", "m_end"} /\ failure \in {"none", "write"}))
          => main_menu_items = unique_items
    /\ output_file.written => output_file.content = unique_items
    /\ Len(menu_items_data) <= n_responses

C10_Witness ==
    /\ output_file.written
    /\ output_file.content # <<>>
    /\ Len(menu_items_data) = MaxResponses
    /\ "click_item" \in ui

====
